---- MODULE Spec2Model ----
(***************************************************************************)
(* pydiode: one-way transfer of a byte stream over UDP.                    *)
(*                                                                         *)
(* The sender process runs two coroutines on one event loop: read_data     *)
(* fills the list `chunks` from standard input, send_data pops it and      *)
(* transmits every chunk as coloured datagrams.  The receiver process      *)
(* runs DiodeReceiveProtocol.datagram_received for every datagram and      *)
(* AsyncWriter.write, which drains the queue to standard output.           *)
(*                                                                         *)
(* Bytes are small naturals, byte strings are sequences of them.  Python's *)
(* None is the value NoneVal.  A datagram at the receiver is the record of  *)
(* the header fields PACKET_HEADER.unpack gives and of the bytes that      *)
(* follow the header.                                                      *)
(***************************************************************************)
EXTENDS Integers, Sequences, FiniteSets, TLC

\* ------------------------------------------------------------------ bounds
\* Size of the payload area of a datagram, scaled down from the 9211 bytes
\* of common.py so that a chunk of a few bytes spans several packets.
MAX_PAYLOAD == 2
\* Largest byte value of the input alphabet.
MaxByte == 1
\* Longest standard input stream.
MaxInput == 3
\* Largest --redundancy.
MaxRedundancy == 3
\* Largest --chunk-max-packets of a run of the sender.
MaxChunkPackets == 2
\* Longest standard input stream of the fixed pattern (fills the buffer).
MaxLongInput == 7
\* Most processes of a pipeline whose return codes are given, and most
\* calls of receive_files of one session of the GUI.
MaxProcs == 3
MaxRuns == 2
\* Most white chunks and most keep-alive chunks of one run.
MaxWhite == 1
MaxKeepAlive == 1
\* Largest n_packets and seq of a datagram handed to the receiver alone.
MaxN == 2
\* Most datagrams of any kind handed to the receiver alone before the copies
\* of one chunk, and most copies.
MaxDatagrams == 1
MaxCopies == 4
\* Most bytes handed to append_to_chunks called on its own, and most calls.
MaxAppended == 5
MaxCalls == 3
\* Most data buffers the network reader of the threaded receiver appends.
MaxSinkBuffers == 2
\* The pacer: ticks that may pass between two calls of sleep(), ticks a
\* sleep may overrun, the longest chunk_duration in ticks, passes of one
\* call, and how far chunk_max_packets goes beyond twice the burst.
MaxSendTicks == 1
MaxOversleep == 1
MaxDuration == 3
MaxPasses == 2
MaxPaceExtra == 1
\* Largest value of --chunk-duration and of --chunk-max-packets.
MaxArg == 2

\* ------------------------------------------------------- program constants
MIN_WARMUP_CHUNKS == 5
PACKET_BURST == 10
MIN_EOF_CHUNKS == 2
\* common.py: struct.Struct("<cHH"), its three fields (a character and two
\* unsigned shorts) and its size, the bytes of the packed header.
PACKET_HEADER_fields == 3
PACKET_HEADER_size == 5
\* common.py: MAX_PAYLOAD = UDP_MAX_BYTES - PACKET_HEADER.size.
UDP_MAX_BYTES == PACKET_HEADER_size + MAX_PAYLOAD
\* common.py: number of bits in a byte.
BYTE == 8
\* pydiode.py: chunk_max_packets when neither option is given.
DEFAULT_PACKETS == 100

\* ------------------------------------------------------------------ helpers
Bytes == 0..MaxByte
NoneVal == <<-1>>
Min(a, b) == IF a < b THEN a ELSE b
Max(a, b) == IF a > b THEN a ELSE b
CeilDiv(a, b) == (a + b - 1) \div b
Zeros(n) == [i \in 1..n |-> 0]
\* d[lo:hi] as Python slices: an index below 0 counts from the end, and
\* both ends are clamped to the sequence.
SliceIndex(d, i) == IF i < 0 THEN Max(Len(d) + i, 0) ELSE Min(i, Len(d))
Slice(d, lo, hi) ==
    LET a == SliceIndex(d, lo)
        b == SliceIndex(d, hi)
    IN  IF a >= b THEN <<>> ELSE SubSeq(d, a + 1, b)
Truthy(x) == x # NoneVal /\ Len(x) > 0
EmptyMap == [x \in {} |-> <<>>]
\* argparse's default for an option that was not given.
Absent == -1
\* main() is not followed: the options are those of the run's variables.
NoCli ==
    [entry |-> "none", pc |-> "none", T |-> Absent, N |-> Absent, B |-> 0,
     packets |-> <<0, 1>>, duration |-> <<0, 1>>, data_bytes |-> 0,
     args_N |-> Absent, sock |-> "none", opens |-> 0, thread |-> "none",
     error |-> <<"", "">>,
     stderr |-> "", stdout |-> 0, sent |-> 0, code |-> Absent]
\* A Popen's returncode: None while the process has not been seen to exit,
\* <<c>> once it has exited with code c.
RcNone == <<>>
\* No pipeline was started by the GUI: the Receive tab as gui_main builds
\* it, with no timer pending.
NoGui ==
    [pc |-> "none", proc |-> <<>>, rc |-> <<>>, button |-> "Start Receiving",
     cancelled |-> FALSE, pl_cancelled |-> FALSE, checks |-> <<>>,
     anims |-> <<>>, dialogs |-> <<>>, repeatedly |-> FALSE, runs |-> 0, stuck |-> FALSE,
     user |-> FALSE, was_stuck |-> FALSE, exits |-> <<>>]

NoWindow == [open |-> FALSE, color |-> "R", n |-> 0, bodies |-> <<>>, mark |-> 0,
             fresh |-> FALSE, seen |-> {}, copies |-> 0]

\* Every byte string of at most n bytes.
RECURSIVE SeqsUpTo(_)
SeqsUpTo(n) ==
    IF n = 0 THEN {<<>>}
    ELSE LET S == SeqsUpTo(n - 1)
         IN  S \cup {Append(t, b) : t \in {u \in S : Len(u) = n - 1}, b \in Bytes}

RECURSIVE Concat(_)
Concat(ss) == IF ss = <<>> THEN <<>> ELSE Head(ss) \o Concat(Tail(ss))

\* hashlib.sha256: a running hash folded over the bytes fed to update();
\* the digest is one opaque item, shorter than MAX_PAYLOAD as 32 < 9211.
RECURSIVE ShaUpdate(_, _)
ShaUpdate(h, data) ==
    IF data = <<>> THEN h
    ELSE ShaUpdate((h * 31 + Head(data) + 1) % 251, Tail(data))
ShaNew == 7
ShaDigest(h) == <<h>>

\* ------------------------------------------------------------------- state
VARIABLES
    redundancy,   \* --redundancy of the run
    chunk_max_packets, \* --chunk-max-packets of the run
    chunk_duration, \* ChunkConfig.chunk_duration, in clock ticks
    elapsed,      \* time.time() - AsyncSleeper.start, in clock ticks
    cli,          \* main(): the parsed options and how far the process got
    gui,          \* the GUI's ProcessPipeline and its pending check_subprocesses
    stdin,        \* bytes of standard input not yet read by the sender
    consumed,     \* bytes read from standard input so far (history)
    chunks,       \* the list shared by read_data and send_data
    r_pc,         \* read_data: "read", "wait" (watermark sleep), "done" or "cancelled"
    color,        \* send_data: colour of the next data chunk
    sha,          \* send_data: running hash of the data chunks
    warmup,       \* send_data: first data chunk not sent yet
    prev_chunk,   \* send_data: last entry popped
    s_pc,         \* send_data: "loop", "send", "sleep", "sleep_rem", "done", "error"
    em,           \* _send_chunk: chunk, colour and redundancy of the call
    r,            \* _send_chunk: passes finished
    p,            \* AsyncSleeper.p: packets sent in this pass
    s,            \* AsyncSleeper.s: sleeps performed in this pass
    log,          \* one record per _send_chunk call (history)
    idle_n,       \* white and keep-alive chunks sent so far
    net,          \* datagrams handed to transport.sendto, in order
    completed,    \* DiodeReceiveProtocol.completed
    packets,      \* DiodeReceiveProtocol.packets
    queue,        \* asyncio.Queue between datagram_received and the writer
    enq,          \* every item datagram_received put on the queue (history)
    on_con_lost,  \* the receiver's on_con_lost future is done
    rx_raised,    \* the last datagram_received call raised an exception
    rx_pc,        \* main (receive): "receive", "returned", "finally" or "exited"
    w_pc,         \* AsyncWriter.write: "get", "write", "digest" or "done"
    w_sha,        \* AsyncWriter.sha
    w_data,       \* AsyncWriter.write: the buffer of the pending write, if any
    stdout,       \* buffers written to standard output, in order
    exit_code,    \* results given to exit_code.set_result, in order
    inj_n,        \* datagrams handed to the receiver by the test harness
    win           \* the chunk whose copies are being delivered, if any

pace_vars == <<chunk_duration, elapsed, cli, gui>>
sender_vars == <<pace_vars, redundancy, chunk_max_packets, stdin, consumed, chunks, r_pc, color, sha, warmup,
                 prev_chunk, s_pc, em, r, p, s, log, idle_n>>
proto_vars == <<completed, packets, queue, enq, on_con_lost, rx_raised, rx_pc>>
writer_vars == <<w_pc, w_sha, w_data, stdout, exit_code>>
monitor_vars == <<inj_n, win>>
vars == <<sender_vars, net, proto_vars, writer_vars, monitor_vars>>

chunk_max_data_bytes == chunk_max_packets * MAX_PAYLOAD
Other(c) == IF c = "R" THEN "B" ELSE "R"

\* ----------------------------------------------------------------- send.py
\* Chunk.__init__: number of packets that cover the data.
n_packets_of(data) == CeilDiv(Len(data), MAX_PAYLOAD)

\* struct.Struct.pack(*values) of PACKET_HEADER: one value for every field
\* of the format, or struct.error is raised.
pack(values) ==
    IF Len(values) = PACKET_HEADER_fields
    THEN [fields |-> values]
    ELSE [raised |-> "struct.error"]

\* The value stands for an exception that was raised.
Raised(x) == "raised" \in DOMAIN x

\* Chunk.__iter__: the datagram of position q of one pass.  The modulo
\* raises ZeroDivisionError for a chunk of no bytes; the header is packed
\* from the four values colour, n_packets, seq and length of the payload.
Packet(data, c, q) ==
    LET n == n_packets_of(data)
    IN  IF n = 0
        THEN [raised |-> "ZeroDivisionError"]
        ELSE LET i == q % n
                 payload == Slice(data, i * MAX_PAYLOAD, (i + 1) * MAX_PAYLOAD)
                 padding == Zeros(MAX_PAYLOAD - Len(payload))
                 header == pack(<<c, n, i, Len(payload)>>)
             IN  IF Raised(header)
                 THEN header
                 ELSE [header |-> header.fields, body |-> payload \o padding]

\* append_to_chunks with the spilled remainder forgotten, with the cap of the
\* last chunk ignored, and with every call starting a new chunk.
append_to_chunks_NoSpill(cs, data, cap) ==
    IF Len(cs) = 0 \/ Len(cs[Len(cs)]) = cap
    THEN Append(cs, data)
    ELSE [cs EXCEPT ![Len(cs)] = @ \o Slice(data, 0, cap - Len(cs[Len(cs)]))]
append_to_chunks_NoSplit(cs, data, cap) ==
    IF Len(cs) = 0 \/ Len(cs[Len(cs)]) = cap
    THEN Append(cs, data)
    ELSE [cs EXCEPT ![Len(cs)] = @ \o data]
append_to_chunks_NewChunk(cs, data, cap) == Append(cs, data)
append_to_chunks(cs, data, cap) ==
    IF Len(cs) = 0 \/ Len(cs[Len(cs)]) = cap
    THEN Append(cs, data)
    ELSE LET remaining_space == cap - Len(cs[Len(cs)])
             ext == [cs EXCEPT ![Len(cs)] = @ \o Slice(data, 0, remaining_space)]
         IN  IF remaining_space < Len(data)
             THEN Append(ext, Slice(data, remaining_space, Len(data)))
             ELSE ext

\* The two coroutines share one event loop: read_data runs only while
\* send_data is suspended in an await, has returned, or was left by an
\* exception and the reader has not been stopped yet.
SenderSuspended == s_pc \in {"loop", "sleep", "sleep_rem", "done", "error"}

\* read_data, `while len(chunks) > 3`: the list is over the watermark.
OverWatermark_Never(cs) == FALSE
OverWatermark(cs) == Len(cs) > 3

\* read_data, `while data`: the read returned at least one byte.
ReadIsData_Always(data) == TRUE
ReadIsData(data) == Len(data) > 0

\* read_data: reader.read() returned.  The read asks for
\* chunk_max_data_bytes bytes; a shorter read than asked happens on a pipe.
\* It returns zero bytes at the end of the input, and also when it asks for
\* zero bytes (chunk_max_packets = 0), with the input left unread: in both
\* cases `while data` ends and the sentinel is appended.
ReaderRead ==
    /\ r_pc = "read"
    /\ SenderSuspended
    /\ \E n \in 0..Min(Len(stdin), chunk_max_data_bytes) :
         /\ (n = 0) <=> (Len(stdin) = 0 \/ chunk_max_data_bytes = 0)
         /\ LET data == SubSeq(stdin, 1, n)
            IN  IF ~ReadIsData(data)
                THEN /\ chunks' = Append(chunks, NoneVal)
                     /\ r_pc' = "done"
                     /\ UNCHANGED <<stdin, consumed>>
                ELSE /\ chunks' = append_to_chunks(chunks, data, chunk_max_data_bytes)
                     /\ r_pc' = IF OverWatermark(chunks') THEN "wait" ELSE "read"
                     /\ stdin' = SubSeq(stdin, n + 1, Len(stdin))
                     /\ consumed' = consumed \o data
    /\ UNCHANGED <<pace_vars, redundancy, chunk_max_packets, color, sha, warmup, prev_chunk, s_pc, em, r, p, s,
                   log, idle_n, net, proto_vars, writer_vars, monitor_vars>>

\* read_data: asyncio.sleep(chunk_duration) of the watermark loop returned
\* and the list has drained; while it holds more than 3 entries the loop
\* sleeps again, which changes nothing.
ReaderWake ==
    /\ r_pc = "wait"
    /\ SenderSuspended
    /\ ~OverWatermark(chunks)
    /\ r_pc' = "read"
    /\ UNCHANGED <<pace_vars, redundancy, chunk_max_packets, stdin, consumed, chunks, color, sha, warmup,
                   prev_chunk, s_pc, em, r, p, s, log, idle_n, net, proto_vars,
                   writer_vars, monitor_vars>>

\* send_data, `prev_chunk = chunk` after the pop.
PrevAfterPop(chunk, prev) == chunk

\* send_data, `if chunk is None`: the popped entry is the reader's sentinel.
IsSentinel(chunk) == chunk = NoneVal

\* send_data, `sha.update(chunk)` for a data chunk.
PopDigest(h, chunk) == ShaUpdate(h, chunk)

\* send_data, redundancy of a data chunk: warmup_redundancy for the first.
DataRedundancy(w, red) == IF ~w THEN red ELSE MIN_WARMUP_CHUNKS + red - 1

\* send_data, redundancy of the EOF chunk.
EofRedundancy(red) == Max(MIN_EOF_CHUNKS, red)

\* send_data, colour of a keep-alive resend ("Previous color").
KeepAliveColor(c) == IF c = "R" THEN "B" ELSE "R"

\* send_data, `warmup = False` and the colour switch follow a data chunk only.
NextWarmup(kind, w) == IF kind = "data" THEN FALSE ELSE w
NextColor(kind, c) == IF kind = "data" THEN Other(c) ELSE c

\* _send_chunk is entered: the Chunk wrapper and the first AsyncSleeper.
StartChunk(data, c, red, kind) ==
    /\ em' = [data |-> data, color |-> c, redundancy |-> red, kind |-> kind]
    /\ r' = 0
    /\ p' = 0
    /\ s' = 0
    /\ log' = Append(log, [kind |-> kind, color |-> c, data |-> data,
                           redundancy |-> red, passes |-> 0, pkts |-> 0])
    /\ s_pc' = "send"

\* send_data, `if len(chunks) > 0`: pop the front entry; the sentinel starts
\* the EOF chunk, anything else is hashed and sent in the current colour.
SenderPop ==
    /\ s_pc = "loop"
    /\ Len(chunks) > 0
    /\ LET chunk == Head(chunks)
       IN  /\ chunks' = Tail(chunks)
           /\ prev_chunk' = PrevAfterPop(chunk, prev_chunk)
           /\ IF IsSentinel(chunk)
              THEN /\ StartChunk(ShaDigest(sha), "K", EofRedundancy(redundancy),
                                 "eof")
                   /\ UNCHANGED sha
              ELSE /\ sha' = PopDigest(sha, chunk)
                   /\ StartChunk(chunk, color, DataRedundancy(warmup, redundancy),
                                 "data")
    /\ UNCHANGED <<pace_vars, redundancy, chunk_max_packets, stdin, consumed, r_pc, color,
                   warmup, idle_n, net, proto_vars, writer_vars, monitor_vars>>

\* send_data, `elif prev_chunk`: resend the previous chunk once under the
\* colour it was sent with.  The branch is taken in a turn of the loop that
\* follows a _send_chunk call for a data chunk which returned; with the
\* header format of common.py such a call is left by the exception of its
\* first packet, and with chunk_max_packets = 0 no data chunk exists, so no
\* specification below takes this step.
SenderKeepAlive ==
    /\ s_pc = "loop"
    /\ Len(chunks) = 0
    /\ Truthy(prev_chunk)
    /\ idle_n.keepalive < MaxKeepAlive
    /\ idle_n' = [idle_n EXCEPT !.keepalive = @ + 1]
    /\ StartChunk(prev_chunk, KeepAliveColor(color), 1, "keepalive")
    /\ UNCHANGED <<pace_vars, redundancy, chunk_max_packets, stdin, consumed, chunks, r_pc,
                   color, sha, warmup, prev_chunk, net, proto_vars, writer_vars,
                   monitor_vars>>

\* send_data, `else`: a white chunk of one zero byte.
SenderWhite ==
    /\ s_pc = "loop"
    /\ Len(chunks) = 0
    /\ ~Truthy(prev_chunk)
    /\ idle_n.white < MaxWhite
    /\ idle_n' = [idle_n EXCEPT !.white = @ + 1]
    /\ StartChunk(Zeros(1), "W", 1, "white")
    /\ UNCHANGED <<pace_vars, redundancy, chunk_max_packets, stdin, consumed, chunks, r_pc,
                   color, sha, warmup, prev_chunk, net, proto_vars, writer_vars,
                   monitor_vars>>

\* AsyncSleeper.__init__
n_sleeps == CeilDiv(chunk_max_packets, PACKET_BURST)
\* AsyncSleeper.sleep, `if (self.p % PACKET_BURST) == 0`: the call ends a
\* burst.
BurstEnds_Always(calls) == TRUE
BurstEnds(calls) == calls % PACKET_BURST = 0

\* _send_chunk, one turn of `for data in c`: the iterator of the chunk
\* builds the next datagram, which goes to transport.sendto, and
\* sleeper.sleep() is called.  An exception raised while the datagram is
\* built leaves _send_chunk and send_data, which catch nothing: the
\* coroutine ends there.  Whether a computed sleep is positive depends on
\* the clock, so both outcomes are possible.
SendPacket ==
    /\ s_pc = "send"
    /\ p < chunk_max_packets
    /\ LET data == Packet(em.data, em.color, p)
       IN  IF Raised(data)
           THEN /\ s_pc' = "error"
                /\ UNCHANGED <<net, p, s, log>>
           ELSE /\ net' = Append(net, data)
                /\ log' = [log EXCEPT ![Len(log)].pkts = @ + 1]
                /\ p' = p + 1
                /\ IF BurstEnds(p + 1)
                   THEN /\ s' = s + 1
                        /\ IF s + 1 > n_sleeps
                           THEN s_pc' = "error"
                           ELSE s_pc' \in {"send", "sleep"}
                   ELSE /\ s' = s
                        /\ s_pc' = "send"
    /\ UNCHANGED <<pace_vars, redundancy, chunk_max_packets, stdin, consumed, chunks, r_pc,
                   color, sha, warmup, prev_chunk, em, r, idle_n, proto_vars,
                   writer_vars, monitor_vars>>

\* The caller of the two coroutines.  Nothing in the repository's files
\* starts read_data and send_data with the parameters send.py defines them
\* with: async_main of main.py hands read_data three arguments and
\* send_data six (GatherRaises), and main of pydiode.py starts functions
\* read and send, which send.py does not define.  The caller is taken from
\* the specification: the reader runs concurrently with the sender on one
\* cooperative loop, and when the sender has stopped the surrounding
\* process stops the reader promptly.  A sender left by an exception is
\* such a stop; the reader is stopped at the await it is suspended in, and
\* a reader that has returned stays done.
ReaderStopped ==
    /\ s_pc = "error"
    /\ r_pc \in {"read", "wait"}
    /\ r_pc' = "cancelled"
    /\ UNCHANGED <<pace_vars, redundancy, chunk_max_packets, stdin, consumed, chunks,
                   color, sha, warmup, prev_chunk, s_pc, em, r, p, s, log, idle_n,
                   net, proto_vars, writer_vars, monitor_vars>>

\* The steps of _send_chunk after the packets of a pass follow.  The sleeps
\* among them need a first packet, which the header format of common.py
\* does not let the iterator build, so no specification below takes them;
\* the end of a pass is reached with chunk_max_packets = 0, where the
\* iterator has no turn and a pass sends nothing.

\* AsyncSleeper.sleep: asyncio.sleep(sleep_duration) returned.
SenderWake ==
    /\ s_pc = "sleep"
    /\ s_pc' = "send"
    /\ UNCHANGED <<pace_vars, redundancy, chunk_max_packets, stdin, consumed, chunks, r_pc,
                   color, sha, warmup, prev_chunk, em, r, p, s, log, idle_n, net,
                   proto_vars, writer_vars, monitor_vars>>

\* The pass is over: the next pass gets a new sleeper; after the last pass
\* _send_chunk returns into send_data, which ends the loop after the EOF
\* chunk, and clears warmup and switches the colour after a data chunk.
FinishPass ==
    /\ r' = r + 1
    /\ p' = 0
    /\ s' = 0
    /\ log' = [log EXCEPT ![Len(log)].passes = @ + 1]
    /\ IF r + 1 < em.redundancy
       THEN /\ s_pc' = "send"
            /\ UNCHANGED <<color, warmup>>
       ELSE /\ s_pc' = IF em.kind = "eof" THEN "done" ELSE "loop"
            /\ warmup' = NextWarmup(em.kind, warmup)
            /\ color' = NextColor(em.kind, color)

\* AsyncSleeper.sleep_remainder after the last packet of a pass: one sleep
\* fills the remaining time when the quota of sleeps is not met.
EndPass ==
    /\ s_pc = "send"
    /\ p = chunk_max_packets
    /\ IF s < n_sleeps
       THEN \/ /\ s_pc' = "sleep_rem"
               /\ UNCHANGED <<r, p, s, log, color, warmup>>
            \/ FinishPass
       ELSE FinishPass
    /\ UNCHANGED <<pace_vars, redundancy, chunk_max_packets, stdin, consumed, chunks, r_pc,
                   sha, prev_chunk, em, idle_n, net, proto_vars, writer_vars,
                   monitor_vars>>

\* AsyncSleeper.sleep_remainder: asyncio.sleep(sleep_duration) returned.
SenderWakeRemainder ==
    /\ s_pc = "sleep_rem"
    /\ FinishPass
    /\ UNCHANGED <<pace_vars, redundancy, chunk_max_packets, stdin, consumed, chunks, r_pc,
                   sha, prev_chunk, em, idle_n, net, proto_vars, writer_vars,
                   monitor_vars>>

\* -------------------------------------------------------------- receive.py
\* self.packets[color][seq] = payload
Store(slots, seq, payload) ==
    [x \in (DOMAIN slots) \cup {seq} |-> IF x = seq THEN payload ELSE slots[x]]

\* How far `for seq in range(n_packets)` gets before a seq is missing.
RECURSIVE Present(_, _, _)
Present(slots, k, n) ==
    IF k < n /\ k \in DOMAIN slots THEN Present(slots, k + 1, n) ELSE k

\* "Mark this chunk as completed" and "Mark the other chunk as incomplete".
MarkCompleted_Forget(comp, c) == [comp EXCEPT ![Other(c)] = FALSE]
MarkCompleted_KeepOther(comp, c) == [comp EXCEPT ![c] = TRUE]
MarkCompleted(comp, c) == [comp EXCEPT ![c] = TRUE, ![Other(c)] = FALSE]

\* `elif not self.completed[color]`: the datagram belongs to a chunk that was
\* not written yet.
Incomplete_Always(comp, c) == TRUE
Incomplete(comp, c) == ~comp[c]

\* `self.on_con_lost.set_result(True)` after an EOF packet.
EofCloses_Never == FALSE
EofCloses == TRUE

\* datagram_received, first line and `data[PACKET_HEADER.size :]`: the header
\* fields the receiver unpacks and the bytes it takes for the payload, which
\* are all the bytes after the header.
Decoded(d) ==
    [color |-> d.color, n_packets |-> d.n_packets, seq |-> d.seq,
     payload |-> d.body]

\* `PACKET_HEADER.unpack(data[: PACKET_HEADER.size])` needs all the bytes of
\* the header.  A datagram too short to hold a header is kept as its bytes.
HasHeader(d) == "raw" \notin DOMAIN d

\* The outcome of a call that pushes nothing, stores nothing and returns.
Dropped(comp, pk) ==
    [completed |-> comp, packets |-> pk, pushed |-> <<>>, closed |-> FALSE,
     raised |-> FALSE]

\* DiodeReceiveProtocol.datagram_received as a function of the state it
\* reads and of the datagram: the state it leaves, the items it puts on the
\* queue, whether it completes on_con_lost and whether it raises.  The
\* payload is everything after the header.  There is no test of the length
\* of the datagram: unpack raises struct.error on less than a header, and a
\* short payload is taken as it is.  A colour that is no key of
\* self.completed and a seq missing when the chunk is written raise KeyError
\* out of the callback, which the event loop logs; what was assigned and put
\* before stays.
Handled(comp, pk, d) ==
    IF ~HasHeader(d)
    THEN [Dropped(comp, pk) EXCEPT !.raised = TRUE]
    ELSE IF d.color = "K"
    THEN [Dropped(comp, pk) EXCEPT !.pushed = <<NoneVal, d.body>>,
                                   !.closed = EofCloses]
    ELSE IF d.color \notin {"R", "B"}
    THEN [Dropped(comp, pk) EXCEPT !.raised = TRUE]
    ELSE IF Incomplete(comp, d.color)
    THEN LET slots == Store(pk[d.color], d.seq, d.body)
             k == Present(slots, 0, d.n_packets)
             written == [i \in 1..k |-> slots[i - 1]]
         IN  IF Cardinality(DOMAIN slots) = d.n_packets
             THEN IF k = d.n_packets
                  THEN [completed |-> MarkCompleted(comp, d.color),
                        packets |-> [pk EXCEPT ![d.color] = EmptyMap],
                        pushed |-> written, closed |-> FALSE, raised |-> FALSE]
                  ELSE [completed |-> comp,
                        packets |-> [pk EXCEPT ![d.color] = slots],
                        pushed |-> written, closed |-> FALSE, raised |-> TRUE]
             ELSE [Dropped(comp, [pk EXCEPT ![d.color] = slots]) EXCEPT
                     !.raised = FALSE]
    ELSE Dropped(comp, pk)

\* asyncio.Queue.put_nowait of the items pushed by one datagram: the queue
\* is first in, first out.
put_nowait_Front(q, items) == items \o q
put_nowait(q, items) == q \o items

\* The call on the protocol object: the queue gets what was put.
datagram_received(d) ==
    LET h == Handled(completed, packets, d)
    IN  /\ completed' = h.completed
        /\ packets' = h.packets
        /\ queue' = put_nowait(queue, h.pushed)
        /\ enq' = enq \o h.pushed
        /\ on_con_lost' = (on_con_lost \/ h.closed)
        /\ rx_raised' = h.raised
        /\ UNCHANGED rx_pc

\* AsyncWriter.write, `if data is None`.
IsTerminator_Never(data) == FALSE
IsTerminator(data) == data = NoneVal

\* AsyncWriter.write, `data = await self.queue.get()` up to the next await:
\* the terminator makes the writer wait for the digest item; a buffer is
\* hashed and its write is handed to the executor, where the coroutine
\* gives way until the write has returned.
WriterGet ==
    /\ w_pc = "get"
    /\ Len(queue) > 0
    /\ queue' = Tail(queue)
    /\ IF IsTerminator(Head(queue))
       THEN /\ w_pc' = "digest"
            /\ UNCHANGED <<w_sha, w_data>>
       ELSE /\ w_sha' = ShaUpdate(w_sha, Head(queue))
            /\ w_data' = Head(queue)
            /\ w_pc' = "write"
    /\ UNCHANGED <<sender_vars, net, completed, packets, enq, on_con_lost,
                   rx_raised, rx_pc, stdout, exit_code, monitor_vars>>

\* AsyncWriter.write, `await ... run_in_executor(None,
\* sys.stdout.buffer.write, data)` returned: the buffer is on standard
\* output and the loop turns to the next get.
WriterWrite ==
    /\ w_pc = "write"
    /\ stdout' = Append(stdout, w_data)
    /\ w_data' = NoneVal
    /\ w_pc' = "get"
    /\ UNCHANGED <<sender_vars, net, proto_vars, w_sha, exit_code, monitor_vars>>

\* AsyncWriter.write, `if received_digest == eof_digest`.
ExitCodeFor_Zero(received_digest, eof_digest) == 0
ExitCodeFor(received_digest, eof_digest) ==
    IF received_digest = eof_digest THEN 0 ELSE 1

\* AsyncWriter.write, `eof_digest = await self.queue.get()`: compare with
\* the digest of what was written and set the exit code.
WriterDigest ==
    /\ w_pc = "digest"
    /\ Len(queue) > 0
    /\ queue' = Tail(queue)
    /\ exit_code' = Append(exit_code, ExitCodeFor(ShaDigest(w_sha), Head(queue)))
    /\ w_pc' = "done"
    /\ UNCHANGED <<sender_vars, net, completed, packets, enq, on_con_lost,
                   rx_raised, rx_pc, w_sha, w_data, stdout, monitor_vars>>

\* ------------------------------------------------- the sender process alone
Pattern(n) == [i \in 1..n |-> i % (MaxByte + 1)]
\* --chunk-max-packets: below and at the pacer's burst.
ChunkPackets == (0..MaxChunkPackets) \cup {PACKET_BURST}
\* send_data and read_data never branch on the value of a byte: the inputs
\* are the streams of zero bytes, which padding cannot be told from, and the
\* streams of a pattern of all byte values, of every length.
ShortInputs == {Zeros(n) : n \in 0..MaxInput} \cup {Pattern(n) : n \in 0..MaxInput}
Inputs == ShortInputs \cup {Pattern(MaxLongInput)}

InitSenderAt(ins, cmps, durations) ==
    /\ redundancy \in 1..MaxRedundancy
    /\ chunk_max_packets \in cmps
    /\ chunk_duration \in durations
    /\ elapsed = 0
    /\ stdin \in ins
    /\ consumed = <<>>
    /\ chunks = <<>>
    /\ r_pc = "read"
    /\ color = "R"
    /\ sha = ShaNew
    /\ warmup = TRUE
    /\ prev_chunk = NoneVal
    /\ s_pc = "loop"
    /\ em = [data |-> <<>>, color |-> "W", redundancy |-> 0, kind |-> "none"]
    /\ r = 0
    /\ p = 0
    /\ s = 0
    /\ log = <<>>
    /\ idle_n = [white |-> 0, keepalive |-> 0]
    /\ net = <<>>

\* The sender where the clock is left out: the pacer's sleeps may or may not
\* happen, and chunk_duration is one tick.
InitSender(ins, cmps) == InitSenderAt(ins, cmps, {1}) /\ cli = NoCli /\ gui = NoGui

InitReceiver ==
    /\ completed = [c \in {"R", "B"} |-> FALSE]
    /\ packets = [c \in {"R", "B"} |-> EmptyMap]
    /\ queue = <<>>
    /\ enq = <<>>
    /\ on_con_lost = FALSE
    /\ rx_raised = FALSE
    /\ rx_pc = "receive"
    /\ w_pc = "get"
    /\ w_sha = ShaNew
    /\ w_data = NoneVal
    /\ stdout = <<>>
    /\ exit_code = <<>>
    /\ inj_n = 0
    /\ win = NoWindow

\* Short inputs under every small configuration; one configuration whose
\* passes reach the pacer's burst and one run whose input fills the list.
Init ==
    /\ InitSender(Inputs, ChunkPackets)
    /\ \/ stdin \in ShortInputs /\ chunk_max_packets <= MaxChunkPackets
       \/ stdin = <<>> /\ chunk_max_packets = PACKET_BURST /\ redundancy = 1
       \/ stdin = Pattern(MaxLongInput) /\ chunk_max_packets = 1 /\ redundancy = 1
    /\ InitReceiver

Next ==
    \/ ReaderRead
    \/ ReaderWake
    \/ SenderPop
    \/ SenderWhite
    \/ SendPacket
    \/ EndPass
    \/ ReaderStopped

Spec == Init /\ [][Next]_vars

\* The event loop runs every coroutine that is ready: send_data gives way
\* at `await asyncio.sleep(0)` in each turn of its loop, so a read that has
\* returned and a watermark sleep that is over are resumed however often
\* the sender runs in between (strong fairness); the sender's own steps stay
\* enabled until taken (weak fairness).  An idle sender need not send a
\* filler chunk for the transfer to go on.
Fairness ==
    /\ SF_vars(ReaderRead)
    /\ SF_vars(ReaderWake)
    /\ WF_vars(SenderPop)
    /\ WF_vars(SendPacket)
    /\ WF_vars(EndPass)
    /\ WF_vars(ReaderStopped)

SpecFair == Init /\ [][Next]_vars /\ Fairness

\* ----------------------------------------------- the receiver process alone
\* Datagrams of any origin reach the UDP port: payloads of one byte under
\* any header, well-formed or not, and white datagrams.
RecvBodies == {<<b>> : b \in Bytes}
Datagram(c, n, q, body) ==
    [color |-> c, n_packets |-> n, seq |-> q, body |-> body]
Datagrams ==
    {Datagram(c, n, q, b) : c \in {"R", "B"}, n \in 0..MaxN, q \in 0..MaxN,
                            b \in RecvBodies}
    \cup {Datagram("W", 1, 0, Zeros(1))}
\* The payload of position q of the chunk whose copies are delivered.
WinBody(q) == <<(q + 1) % (MaxByte + 1)>>
\* The digest an EOF datagram claims: that of the buffers pushed so far, or
\* that of a stream one byte longer.
KBodies ==
    LET pushed == Concat(SelectSeq(enq, LAMBDA x : x # NoneVal))
    IN  {ShaDigest(ShaUpdate(ShaNew, pushed)),
         ShaDigest(ShaUpdate(ShaNew, pushed \o Zeros(1)))}

\* Any datagram arrives, before the chunk whose copies are followed.
Inject ==
    /\ inj_n < MaxDatagrams
    /\ ~on_con_lost
    /\ ~win.open
    /\ inj_n' = inj_n + 1
    /\ \E d \in Datagrams : datagram_received(d)
    /\ UNCHANGED <<sender_vars, net, writer_vars, win>>

\* Datagrams shorter than the header.
ShortDatagrams == {[raw |-> Zeros(k)] : k \in 0..(PACKET_HEADER_size - 1)}

\* A datagram shorter than the header arrives.
InjectShort ==
    /\ ~on_con_lost
    /\ \E u \in ShortDatagrams : datagram_received(u)
    /\ UNCHANGED <<sender_vars, net, writer_vars, monitor_vars>>

\* From now on only copies of the datagrams of one chunk arrive.
OpenWindow ==
    /\ ~on_con_lost
    /\ ~win.open
    /\ \E c \in {"R", "B"}, n \in 1..MaxN :
          win' = [open |-> TRUE, color |-> c, n |-> n,
                  bodies |-> [q \in 0..(n - 1) |-> WinBody(q)],
                  mark |-> Len(enq),
                  fresh |-> ~completed[c] /\ DOMAIN packets[c] = {},
                  seen |-> {}, copies |-> 0]
    /\ UNCHANGED <<sender_vars, net, proto_vars, writer_vars, inj_n>>

\* A copy of one datagram of the chunk arrives.
InjectCopy ==
    /\ win.open
    /\ ~on_con_lost
    /\ win.copies < MaxCopies
    /\ \E q \in 0..(win.n - 1) :
         /\ datagram_received(Datagram(win.color, win.n, q, win.bodies[q]))
         /\ win' = [win EXCEPT !.seen = @ \cup {q}, !.copies = @ + 1]
    /\ UNCHANGED <<sender_vars, net, writer_vars, inj_n>>

\* An EOF datagram arrives; receive_data then closes the transport.
InjectEof ==
    /\ ~on_con_lost
    /\ \E b \in KBodies : datagram_received(Datagram("K", 1, 0, b))
    /\ UNCHANGED <<sender_vars, net, writer_vars, monitor_vars>>

InitRecv ==
    /\ InitSender({<<>>}, {1})
    /\ redundancy = 1
    /\ InitReceiver

NextRecv ==
    \/ Inject
    \/ OpenWindow
    \/ InjectCopy
    \/ InjectEof
    \/ InjectShort
    \/ WriterGet
    \/ WriterWrite
    \/ WriterDigest

SpecRecv == InitRecv /\ [][NextRecv]_vars

\* AsyncWriter.write is a coroutine of the receiver's event loop: it is
\* resumed whenever the queue holds an item for its pending get (weak
\* fairness; nothing but the writer takes items from the queue), and the
\* executor's thread finishes a write that standard output accepts.
WriterFairness ==
    /\ WF_vars(WriterGet)
    /\ WF_vars(WriterWrite)
    /\ WF_vars(WriterDigest)

\* The datagrams that put something on the queue, and the writer.
NextRecvFair ==
    \/ Inject
    \/ OpenWindow
    \/ InjectCopy
    \/ InjectEof
    \/ WriterGet
    \/ WriterWrite
    \/ WriterDigest

SpecRecvFair == InitRecv /\ [][NextRecvFair]_vars /\ WriterFairness

\* ------------------------------------ the receiver whose reader may stop
\* The receiver of pydiode.py's main: write(q, r) runs in a thread, main
\* calls receive(q, packet_details, sock), and its `finally` clause puts
\* None on q, joins the thread and exits with r.get().  receive and write
\* are not among the repository's files; they are taken from the
\* specification.  The network reader appends data buffers to the sink, and
\* for an EOF packet a terminator and then the claimed digest, after which
\* it stops reading.  The output consumer writes and hashes each buffer; on
\* the terminator it reads the digest and gives the exit code 0 iff it
\* equals its own, otherwise 1; on a sink closed without terminator it gives
\* the exit code 1.  In this section queue is q and enq what the reader
\* appended, exit_code is r, rx_pc is main's position ("receive",
\* "returned" after the EOF packet, "finally" once None is put and the
\* thread is being joined, "exited") and w_pc the thread's; cli.code is the
\* exit code of the process.
SinkTerminator == <<-2>>
SinkBuffers == {<<b>> : b \in Bytes}
SinkEof == \E i \in 1..Len(enq) : enq[i] = SinkTerminator

\* The reader appends the payloads of a completed chunk to the sink.
ReceivePuts ==
    /\ rx_pc = "receive"
    /\ Len(enq) < MaxSinkBuffers
    /\ \E data \in SinkBuffers :
         /\ queue' = Append(queue, data)
         /\ enq' = Append(enq, data)
    /\ UNCHANGED <<sender_vars, net, completed, packets, on_con_lost,
                   rx_raised, rx_pc, writer_vars, monitor_vars>>

\* The reader handles an EOF packet: the terminator, then the digest the
\* packet claims, right or wrong; it stops reading and receive returns.
ReceiveEof ==
    /\ rx_pc = "receive"
    /\ \E eof_digest \in {ShaDigest(ShaUpdate(ShaNew, Concat(enq))),
                           ShaDigest(ShaUpdate(ShaNew, Concat(enq) \o Zeros(1)))} :
         /\ queue' = queue \o <<SinkTerminator, eof_digest>>
         /\ enq' = enq \o <<SinkTerminator, eof_digest>>
    /\ rx_pc' = "returned"
    /\ UNCHANGED <<sender_vars, net, completed, packets, on_con_lost,
                   rx_raised, writer_vars, monitor_vars>>

\* pydiode.py, main, `finally: q.put(None)`: receive has returned, or the
\* socket could not be set up or failed with one of the errors main lists;
\* the sink is closed and main waits in t.join().
ReceiveStops ==
    /\ rx_pc \in {"receive", "returned"}
    /\ rx_pc' = "finally"
    /\ queue' = Append(queue, NoneVal)
    /\ UNCHANGED <<sender_vars, net, completed, packets, enq, on_con_lost,
                   rx_raised, writer_vars, monitor_vars>>

\* The consumer records exit code 1 for a sink closed without terminator.
SinkClosed_Zero(code) == Append(code, 0)
SinkClosed(code) == Append(code, 1)

\* The consumer takes the next item of the sink: a buffer is hashed and
\* goes to standard output, the terminator makes it read the digest, and
\* the closed sink ends it.
WriteGet ==
    /\ w_pc = "get"
    /\ Len(queue) > 0
    /\ queue' = Tail(queue)
    /\ IF Head(queue) = NoneVal
       THEN /\ exit_code' = SinkClosed(exit_code)
            /\ w_pc' = "done"
            /\ UNCHANGED <<w_sha, w_data>>
       ELSE IF Head(queue) = SinkTerminator
       THEN /\ w_pc' = "digest"
            /\ UNCHANGED <<w_sha, w_data, exit_code>>
       ELSE /\ w_sha' = ShaUpdate(w_sha, Head(queue))
            /\ w_data' = Head(queue)
            /\ w_pc' = "write"
            /\ UNCHANGED exit_code
    /\ UNCHANGED <<sender_vars, net, completed, packets, enq, on_con_lost,
                   rx_raised, rx_pc, stdout, monitor_vars>>

\* The consumer has written the buffer to standard output.
WriteStdout ==
    /\ w_pc = "write"
    /\ stdout' = Append(stdout, w_data)
    /\ w_data' = NoneVal
    /\ w_pc' = "get"
    /\ UNCHANGED <<sender_vars, net, proto_vars, w_sha, exit_code, monitor_vars>>

\* The consumer reads the item after the terminator and compares it with
\* its running digest: exit code 0 iff they are equal.
WriteDigest ==
    /\ w_pc = "digest"
    /\ Len(queue) > 0
    /\ queue' = Tail(queue)
    /\ exit_code' = Append(exit_code,
                           IF Head(queue) = ShaDigest(w_sha) THEN 0 ELSE 1)
    /\ w_pc' = "done"
    /\ UNCHANGED <<sender_vars, net, completed, packets, enq, on_con_lost,
                   rx_raised, rx_pc, w_sha, w_data, stdout, monitor_vars>>

\* pydiode.py, main, `t.join()` has returned: `sys.exit(r.get())`.
MainExits ==
    /\ rx_pc = "finally"
    /\ w_pc = "done"
    /\ exit_code # <<>>
    /\ rx_pc' = "exited"
    /\ cli' = [cli EXCEPT !.code = exit_code[1]]
    /\ UNCHANGED <<chunk_duration, elapsed, gui, redundancy, chunk_max_packets,
                   stdin, consumed, chunks, r_pc, color, sha, warmup,
                   prev_chunk, s_pc, em, r, p, s, log, idle_n, net, completed,
                   packets, queue, enq, on_con_lost, rx_raised, writer_vars,
                   monitor_vars>>

NextSink ==
    \/ ReceivePuts
    \/ ReceiveEof
    \/ ReceiveStops
    \/ WriteGet
    \/ WriteStdout
    \/ WriteDigest
    \/ MainExits

SpecSink == InitRecv /\ [][NextSink]_vars

\* ------------------------------------------------- append_to_chunks alone
\* A call of append_to_chunks on the list built by the calls before it, with
\* data of any length: empty, shorter than chunk_max_data_bytes, as long,
\* and longer, which the function takes although its docstring assumes it
\* away.  The log keeps the data of every call.
AppendCall ==
    /\ Len(log) < MaxCalls
    /\ \E data \in SeqsUpTo(MaxAppended - Len(consumed)) :
         /\ chunks' = append_to_chunks(chunks, data, chunk_max_data_bytes)
         /\ consumed' = consumed \o data
         /\ log' = Append(log, [kind |-> "append", data |-> data])
    /\ UNCHANGED <<pace_vars, redundancy, chunk_max_packets, stdin, r_pc, color, sha, warmup,
                   prev_chunk, s_pc, em, r, p, s, idle_n, net, proto_vars,
                   writer_vars, monitor_vars>>

InitChunks ==
    /\ InitSender({<<>>}, 0..MaxChunkPackets)
    /\ redundancy = 1
    /\ InitReceiver

NextChunks == AppendCall

SpecChunks == InitChunks /\ [][NextChunks]_vars

\* ---------------------------------------------- main(), the sender's side
\* Python's truth value of an option: None and 0 are false.
ArgTruthy(x) == x # Absent /\ x # 0

\* ChunkConfig.__init__ (pydiode.py): the three quantities of a chunk from
\* whichever of the two options is set; quotients are kept as <<numerator,
\* denominator>>, int() of a quotient that is not negative is its floor.
ChunkConfig(n, t, b) ==
    IF ArgTruthy(n)
    THEN [packets |-> <<n, 1>>, duration |-> <<n * UDP_MAX_BYTES * BYTE, b>>,
          data_bytes |-> n * MAX_PAYLOAD]
    ELSE LET k == (t * b) \div (BYTE * UDP_MAX_BYTES)
         IN  [packets |-> <<k, 1>>, duration |-> <<t, 1>>,
              data_bytes |-> k * MAX_PAYLOAD]

\* async_main (main.py): the same quantities as that entry point computes
\* them: chunk_max_packets is the quotient itself and chunk_max_data_bytes
\* is int(chunk_max_packets * MAX_PAYLOAD).
AsyncMainConfig(n, t, b) ==
    IF ArgTruthy(n)
    THEN [packets |-> <<n, 1>>, duration |-> <<n * UDP_MAX_BYTES * BYTE, b>>,
          data_bytes |-> n * MAX_PAYLOAD]
    ELSE [packets |-> <<t * b, BYTE * UDP_MAX_BYTES>>, duration |-> <<t, 1>>,
          data_bytes |-> ((t * b) * MAX_PAYLOAD) \div (BYTE * UDP_MAX_BYTES)]

\* The OSErrors a socket call raises, by platform and kind; str(e) of an
\* unassignable address or an unknown host is one of the strings main()
\* lists for macOS, Linux and Windows.
Platforms == {"macOS", "Linux", "Windows"}
ErrorKinds == {"unassignable", "unknown_host", "other"}
OsErrors == Platforms \X ErrorKinds
\* `if str(e) in {...}` of the sender's `except OSError`.
KnownSendError(e) ==
    e \in {"macOS", "Linux"} \X {"unassignable", "unknown_host"}

\* Everything but cli.
not_cli ==
    <<chunk_duration, elapsed, gui, redundancy, chunk_max_packets, stdin, consumed,
      chunks, r_pc, color, sha, warmup, prev_chunk, s_pc, em, r, p, s, log,
      idle_n, net, proto_vars, writer_vars, monitor_vars>>

\* `if args.chunk_duration and args.chunk_max_packets: raise ValueError`,
\* `elif not ... and not ...: args.chunk_max_packets = 100`.  The ValueError
\* leaves main(): the interpreter prints the traceback and exits with 1.
BothGiven(t, n) == ArgTruthy(t) /\ ArgTruthy(n)
CheckOptions ==
    /\ cli.pc = "parsed"
    /\ IF BothGiven(cli.T, cli.N)
       THEN cli' = [cli EXCEPT !.pc = "exited", !.stderr = "traceback",
                               !.code = 1]
       ELSE IF ~ArgTruthy(cli.T) /\ ~ArgTruthy(cli.N)
       THEN cli' = [cli EXCEPT !.pc = "checked", !.args_N = DEFAULT_PACKETS]
       ELSE cli' = [cli EXCEPT !.pc = "checked"]
    /\ UNCHANGED not_cli

\* `cc = ChunkConfig(...)` in pydiode.py, lines 97-115 in main.py.
Configure ==
    /\ cli.pc = "checked"
    /\ LET cc == IF cli.entry = "pydiode"
                 THEN ChunkConfig(cli.args_N, cli.T, cli.B)
                 ELSE AsyncMainConfig(cli.args_N, cli.T, cli.B)
       IN  cli' = [cli EXCEPT !.pc = "configured", !.packets = cc.packets,
                              !.duration = cc.duration,
                              !.data_bytes = cc.data_bytes]
    /\ UNCHANGED not_cli

\* pydiode.py, `try:` up to `t.start()`: the reader thread is created, the
\* socket and the transport are set up, and only then the thread is
\* started.  The set-up may raise an OSError, which closes the socket.
SetupSocket ==
    /\ cli.pc = "configured"
    /\ cli.entry = "pydiode"
    /\ \/ cli' = [cli EXCEPT !.pc = "sending", !.sock = "open",
                             !.opens = @ + 1, !.thread = "started"]
       \/ \E e \in OsErrors :
            cli' = [cli EXCEPT !.pc = "except", !.sock = "closed",
                               !.opens = @ + 1, !.thread = "created",
                               !.error = e]
    /\ UNCHANGED not_cli

\* main.py, async_main, `await asyncio.gather(read_data(chunks,
\* chunk_max_data_bytes, args.chunk_duration), send_data(...))`: read_data
\* has the two parameters chunks and chunk_config (send.py), so the call
\* that builds gather's first argument raises TypeError.  No coroutine is
\* created, nothing is read from the standard input and no endpoint is
\* requested; asyncio.run lets the exception leave main(), the interpreter
\* prints the traceback and exits with 1.
GatherRaises ==
    /\ cli.pc = "configured"
    /\ cli.entry = "main"
    /\ cli' = [cli EXCEPT !.pc = "exited", !.stderr = "traceback", !.code = 1]
    /\ UNCHANGED not_cli

\* `send(...)` returns at the end of the input, `exit_code = 0`.
SendReturns ==
    /\ cli.pc = "sending"
    /\ cli' = [cli EXCEPT !.pc = "finally", !.sock = "closed", !.sent = 1,
                          !.code = 0]
    /\ UNCHANGED not_cli

\* `send(...)` raises an OSError of the network.
SendFails ==
    /\ cli.pc = "sending"
    /\ \E e \in OsErrors :
         cli' = [cli EXCEPT !.pc = "except", !.sock = "closed", !.error = e]
    /\ UNCHANGED not_cli

\* `except OSError as e`: the short message for the known errors, the
\* exception raised again for the others.
ExceptOSError ==
    /\ cli.pc = "except"
    /\ IF KnownSendError(cli.error)
       THEN cli' = [cli EXCEPT !.pc = "finally", !.stderr = "short", !.code = 1]
       ELSE cli' = [cli EXCEPT !.pc = "finally", !.stderr = "traceback",
                               !.code = 1]
    /\ UNCHANGED not_cli

\* `finally:` the reader is told to stop and, if it was started, joined;
\* then sys.exit(exit_code), or the exception raised again ends the process.
Finally ==
    /\ cli.pc = "finally"
    /\ cli' = [cli EXCEPT !.pc = "exited",
                          !.thread = IF @ = "started" THEN "joined" ELSE @]
    /\ UNCHANGED not_cli

\* The options of a run: each of the two absent, zero or positive.
ArgValues == {Absent} \cup 0..MaxArg
\* A bitrate at which a whole number of packets fits in a second, and one at
\* which it does not.
Bitrates == {BYTE * UDP_MAX_BYTES, (BYTE * UDP_MAX_BYTES * 3) \div 2}

InitMain ==
    /\ InitSenderAt({<<>>}, {1}, {1})
    /\ gui = NoGui
    /\ redundancy = 1
    /\ InitReceiver
    /\ \E e \in {"pydiode", "main"}, t \in ArgValues, n \in ArgValues,
          b \in Bitrates :
         cli = [NoCli EXCEPT !.entry = e, !.pc = "parsed", !.T = t, !.N = n,
                             !.args_N = n, !.B = b]

NextMain ==
    \/ CheckOptions
    \/ Configure
    \/ GatherRaises
    \/ SetupSocket
    \/ SendReturns
    \/ SendFails
    \/ ExceptOSError
    \/ Finally

SpecMain == InitMain /\ [][NextMain]_vars

\* ------------------------------------------ the pacer with the clock kept
\* The class AsyncSleeper on its own, driven by a caller that does what the
\* class is written for: the constructor, sleep() chunk_max_packets times,
\* then sleep_remainder(), and a new sleeper for the next pass; the clock is
\* in ticks.  For chunk_max_packets = 0 this is the pass _send_chunk makes:
\* the loop over the chunk has no turn, and the constructor is followed by
\* sleep_remainder().  For chunk_max_packets >= 1 it is not: the loop of
\* _send_chunk is left by the struct.error of SendPacket before its first
\* call of sleep(), and the calls of sleep() here are the caller's, not
\* _send_chunk's.  Here s_pc is the caller's position: "loop" before the
\* first sleeper, "send" between two calls, "sleep" and "sleep_rem" inside
\* asyncio.sleep, "passed" after sleep_remainder, "error" after IndexError.
\* Up to MaxSendTicks pass between two calls, asyncio.sleep(d) returns d
\* ticks after it was called or up to MaxOversleep later; target_elapsed is
\* the fraction s / n_sleeps of chunk_duration, compared without rounding.

\* AsyncSleeper.sleep, `sleep_duration > 0` for target_elapsed =
\* (sv / n_sleeps) * duration and already_elapsed = el.
SleepIsPositive(sv, el) == sv * chunk_duration > el * n_sleeps

\* The clock values at which asyncio.sleep(target_elapsed - el) may return.
WakeTimes(sv, el) ==
    LET due == Max(el, CeilDiv(sv * chunk_duration, n_sleeps))
    IN  due..(due + MaxOversleep)

\* AsyncSleeper.sleep_remainder, `if self.s < self.n_sleeps`.
QuotaOpen(sv) == sv < n_sleeps

\* AsyncSleeper.__init__ of the first pass: p = 0, s = 0 (as InitPace has
\* them) and start = time.time().
SleeperInit ==
    /\ s_pc = "loop"
    /\ s_pc' = "send"
    /\ elapsed' = 0
    /\ UNCHANGED <<chunk_duration, cli, gui, redundancy, chunk_max_packets, stdin, consumed,
                   chunks, r_pc, color, sha, warmup, prev_chunk, em, r, p, s, log,
                   idle_n, net, proto_vars, writer_vars, monitor_vars>>

\* A call of AsyncSleeper.sleep by the caller, dt ticks after the call
\* before it returned: p is counted; every PACKET_BURST calls s is counted, IndexError is raised
\* when s exceeds n_sleeps, and asyncio.sleep is awaited when the target is
\* not reached yet.
SleeperSleep ==
    /\ s_pc = "send"
    /\ p < chunk_max_packets
    /\ \E dt \in 0..MaxSendTicks :
         /\ elapsed' = elapsed + dt
         /\ p' = p + 1
         /\ IF BurstEnds(p + 1)
            THEN /\ s' = s + 1
                 /\ IF s + 1 > n_sleeps
                    THEN s_pc' = "error"
                    ELSE IF SleepIsPositive(s + 1, elapsed + dt)
                    THEN s_pc' = "sleep"
                    ELSE s_pc' = "send"
            ELSE /\ s' = s
                 /\ s_pc' = "send"
    /\ UNCHANGED <<chunk_duration, cli, gui, redundancy, chunk_max_packets, stdin, consumed,
                   chunks, r_pc, color, sha, warmup, prev_chunk, em, r, log,
                   idle_n, net, proto_vars, writer_vars, monitor_vars>>

\* AsyncSleeper.sleep: asyncio.sleep(sleep_duration) returned.
SleeperWake ==
    /\ s_pc = "sleep"
    /\ elapsed' \in WakeTimes(s, elapsed)
    /\ s_pc' = "send"
    /\ UNCHANGED <<chunk_duration, cli, gui, redundancy, chunk_max_packets, stdin, consumed,
                   chunks, r_pc, color, sha, warmup, prev_chunk, em, r, p, s, log,
                   idle_n, net, proto_vars, writer_vars, monitor_vars>>

\* AsyncSleeper.sleep_remainder, called after the n_packets calls of
\* sleep(), which are none when n_packets is 0: n_sleeps is then 0 and the
\* quota counts as met.
SleeperRemainder ==
    /\ s_pc = "send"
    /\ p = chunk_max_packets
    /\ IF QuotaOpen(s)
       THEN IF chunk_duration - elapsed > 0
            THEN /\ s_pc' = "sleep_rem"
                 /\ s' = s
            ELSE /\ s_pc' = "passed"
                 /\ s' = n_sleeps
       ELSE /\ s_pc' = "passed"
            /\ s' = s
    /\ UNCHANGED <<pace_vars, redundancy, chunk_max_packets, stdin, consumed,
                   chunks, r_pc, color, sha, warmup, prev_chunk, em, r, p, log,
                   idle_n, net, proto_vars, writer_vars, monitor_vars>>

\* AsyncSleeper.sleep_remainder: asyncio.sleep(sleep_duration) returned and
\* the quota of sleeps is recorded as met.
SleeperWakeRemainder ==
    /\ s_pc = "sleep_rem"
    /\ elapsed' \in chunk_duration..(chunk_duration + MaxOversleep)
    /\ s' = n_sleeps
    /\ s_pc' = "passed"
    /\ UNCHANGED <<chunk_duration, cli, gui, redundancy, chunk_max_packets, stdin, consumed,
                   chunks, r_pc, color, sha, warmup, prev_chunk, em, r, p, log,
                   idle_n, net, proto_vars, writer_vars, monitor_vars>>

\* AsyncSleeper.__init__ of a later pass: a new sleeper, whose clock starts
\* now.
SleeperNext ==
    /\ s_pc = "passed"
    /\ r + 1 < redundancy
    /\ r' = r + 1
    /\ p' = 0
    /\ s' = 0
    /\ elapsed' = 0
    /\ s_pc' = "send"
    /\ UNCHANGED <<chunk_duration, cli, gui, redundancy, chunk_max_packets, stdin, consumed,
                   chunks, r_pc, color, sha, warmup, prev_chunk, em, log, idle_n,
                   net, proto_vars, writer_vars, monitor_vars>>

\* chunk_max_packets from 0, which int() in ChunkConfig gives for a short
\* chunk_duration, to below, at, above and at twice PACKET_BURST.
PacePackets == 0..(2 * PACKET_BURST + MaxPaceExtra)

InitPace ==
    /\ InitSenderAt({<<>>}, PacePackets, 1..MaxDuration)
    /\ cli = NoCli
    /\ gui = NoGui
    /\ redundancy \in 1..MaxPasses
    /\ InitReceiver

NextPace ==
    \/ SleeperInit
    \/ SleeperSleep
    \/ SleeperWake
    \/ SleeperRemainder
    \/ SleeperWakeRemainder
    \/ SleeperNext

SpecPace == InitPace /\ [][NextPace]_vars

\* ------------------------------------------------------------------ claims
IsData(e) == e.kind = "data"
DataLog == SelectSeq(log, IsData)
Complete(e) == e.passes = e.redundancy /\ e.pkts = e.redundancy * chunk_max_packets
\* The call of _send_chunk for entry i of the log is over: a later call was
\* made, or send_data is between two calls, has ended or was left by an
\* exception.
Over(i) == i < Len(log) \/ s_pc \in {"loop", "done", "error"}

\* Is a a prefix of b?
IsPrefix(a, b) == Len(a) <= Len(b) /\ a = SubSeq(b, 1, Len(a))
\* Index of the terminator on the queue's history, past its end if none.
RECURSIVE FirstNone(_, _)
FirstNone(sq, i) ==
    IF i > Len(sq) \/ sq[i] = NoneVal THEN i ELSE FirstNone(sq, i + 1)
\* The buffers enqueued for standard output, and the claimed digest.
EnqData == SubSeq(enq, 1, FirstNone(enq, 1) - 1)
EofProcessed == FirstNone(enq, 1) <= Len(enq)
\* The buffers the writer has taken from the queue: those written and the
\* one whose write is pending.
WriterTaken == IF w_pc = "write" THEN Append(stdout, w_data) ELSE stdout

\* C2: on the terminator the writer takes the next item as the claimed
\* digest and sets the exit code once: 0 if the item equals the digest of
\* the buffers written before the terminator, 1 otherwise.
C2_WriterExitCode ==
    /\ Len(exit_code) <= 1
    /\ (w_pc = "done") <=> (Len(exit_code) = 1)
    /\ w_sha = ShaUpdate(ShaNew, Concat(WriterTaken))
    /\ IsPrefix(WriterTaken, EnqData)
    /\ Len(exit_code) = 1
       => /\ stdout = EnqData
          /\ exit_code[1] \in {0, 1}
          /\ (exit_code[1] = 0)
             <=> (enq[FirstNone(enq, 1) + 1]
                    = ShaDigest(ShaUpdate(ShaNew, Concat(stdout))))
C2_Witness ==
    /\ exit_code = <<0>>
    /\ Len(stdout) >= 1

\* The buffers pushed since the first copy of the chunk, and its payloads.
Pushed == SubSeq(enq, win.mark + 1, FirstNone(enq, 1) - 1)
Expected == [i \in 1..win.n |-> win.bodies[i - 1]]
AllSeen == win.seen = 0..(win.n - 1)

\* C3 as stated: once at least one copy of every datagram of a chunk has
\* arrived, with nothing but its copies in between, the payloads of the
\* chunk were pushed exactly once.
C3_Original == (win.open /\ AllSeen) => Pushed = Expected
\* C3: when the first copy of a chunk arrives while its colour is not marked
\* completed and holds no slot, the payloads are pushed once, in seq order,
\* when the last missing seq arrives, and no later copy pushes anything.
C3_DuplicateSuppression ==
    (win.open /\ win.fresh)
    => Pushed = IF AllSeen THEN Expected ELSE <<>>
C3_Witness ==
    /\ win.open /\ win.fresh
    /\ win.n = 2
    /\ AllSeen
    /\ win.copies >= 4
    /\ \E i \in 1..win.mark : enq[i] # NoneVal

\* C4: while the chunk of a colour is in progress, a datagram whose seq is
\* already stored does not change the payload stored for that seq.
C4_FirstArrivalStep ==
    \A c \in {"R", "B"} :
       ~completed[c]
       => \A q \in DOMAIN packets[c] :
             q \in DOMAIN packets'[c] => packets'[c][q] = packets[c][q]
C4_FirstArrival == [][C4_FirstArrivalStep]_vars

\* The sentinel was appended and popped.
SentinelPopped == r_pc = "done" /\ \A i \in 1..Len(chunks) : chunks[i] # NoneVal

\* C7: the EOF chunk is started exactly when the sentinel is popped, in
\* colour K; every chunk started before it was transmitted in full; it is
\* transmitted for max(MIN_EOF_CHUNKS, redundancy) passes and the sender
\* then ends, having started nothing after it.
C7_EofPasses ==
    /\ SentinelPopped <=> (\E i \in 1..Len(log) : log[i].kind = "eof")
    /\ \A i \in 1..Len(log) :
          log[i].kind = "eof"
          => /\ i = Len(log)
             /\ log[i].color = "K"
             /\ log[i].redundancy = Max(MIN_EOF_CHUNKS, redundancy)
             /\ \A j \in 1..(i - 1) : Complete(log[j]) /\ log[j].color # "K"
             /\ Over(i) => (Complete(log[i]) /\ s_pc = "done")

\* C8: the first data chunk is transmitted for MIN_WARMUP_CHUNKS +
\* redundancy - 1 passes, every later one for redundancy passes; warmup is
\* true exactly until the first data chunk has been sent, white chunks
\* before it leaving it true.
C8_Warmup ==
    /\ \A i \in 1..Len(DataLog) :
          DataLog[i].redundancy =
             IF i = 1 THEN MIN_WARMUP_CHUNKS + redundancy - 1 ELSE redundancy
    /\ \A i \in 1..Len(log) :
          (log[i].kind = "data" /\ Over(i)) => Complete(log[i])
    /\ warmup <=> ~(\E i \in 1..Len(log) : log[i].kind = "data" /\ Over(i))

DataDatagrams == {d \in Datagrams : d.color \in {"R", "B"}}

\* C11: a white datagram, in every receiver state, is handled without any
\* effect: completed, the slots and the queue stay as they are, on_con_lost
\* is not completed and no exception is raised.
C11_WhiteIgnored ==
    \A d \in Datagrams :
       d.color = "W"
       => Handled(completed, packets, d) = Dropped(completed, packets)

\* C12: on the first EOF datagram the queue gets the terminator and then
\* the payload of the EOF packet, on_con_lost is completed and the
\* transport is closed: nothing is put after the two items, whatever
\* arrives, further copies of the EOF packet included.
C12_Inv ==
    /\ on_con_lost <=> EofProcessed
    /\ EofProcessed
       => /\ Len(enq) = FirstNone(enq, 1) + 1
          /\ enq[Len(enq)] # NoneVal
C12_Step ==
    /\ (~on_con_lost /\ enq' # enq /\ on_con_lost')
       => \E b \in KBodies : enq' = enq \o <<NoneVal, b>>
    /\ on_con_lost => (on_con_lost' /\ enq' = enq)
C12_EofOnce == [](C12_Inv) /\ [][C12_Step]_vars
C12_Witness ==
    /\ EofProcessed
    /\ Len(EnqData) >= 2
    /\ w_pc = "digest"
    /\ Len(queue) = 1

\* C13: a datagram of a colour marked completed is dropped in every
\* receiver state: completed, the slots and the queue stay as they are.
C13_CompletedDrop ==
    \A d \in DataDatagrams :
       completed[d.color]
       => Handled(completed, packets, d) = Dropped(completed, packets)
C13_Witness ==
    /\ win.open
    /\ win.copies >= 2
    /\ completed[win.color]
    /\ DOMAIN packets[win.color] = {}
    /\ Pushed = <<>>
    /\ win.mark > 0

\* The datagram is stored and makes the number of slots of its colour equal
\* to the n_packets of its header.
MakesComplete(d) ==
    /\ ~completed[d.color]
    /\ Cardinality(DOMAIN Store(packets[d.color], d.seq, d.body)) = d.n_packets

\* C14: a datagram that makes the number of slots of its colour equal to
\* its n_packets sets completed of the colour, empties the slots of the
\* colour and clears completed of the other colour in that one call, and no
\* other call sets completed of a colour.
C14_CompletionStep ==
    /\ \A d \in DataDatagrams :
          LET h == Handled(completed, packets, d)
          IN  /\ MakesComplete(d)
                 => /\ h.completed[d.color]
                    /\ h.packets[d.color] = EmptyMap
                    /\ ~h.completed[Other(d.color)]
              /\ ~MakesComplete(d) => h.completed = completed
    /\ \A d \in Datagrams \ DataDatagrams :
          Handled(completed, packets, d).completed = completed

\* C15: what a call pushes of a chunk is the payloads of seq 0, 1, ...,
\* n_packets - 1 in this order, and it pushes nothing unless all of these
\* slots are present.
C15_SeqOrder ==
    \A d \in DataDatagrams :
       LET h == Handled(completed, packets, d)
           slots == Store(packets[d.color], d.seq, d.body)
       IN  h.pushed # <<>>
           => /\ \A q \in 0..(d.n_packets - 1) : q \in DOMAIN slots
              /\ h.pushed = [i \in 1..d.n_packets |-> slots[i - 1]]

\* C16: after any sequence of calls of append_to_chunks from the empty list,
\* with data of any length, the chunks, concatenated, are the data of the
\* calls in call order.
C16_AppendConcat ==
    Concat(chunks) = Concat([i \in 1..Len(log) |-> log[i].data])
C16_Witness ==
    /\ Len(log) >= 3
    /\ Len(chunks) >= 2
    /\ Len(log[1].data) < chunk_max_data_bytes
    /\ Len(log[1].data) + Len(log[2].data) > chunk_max_data_bytes

\* The data of every call so far had at most chunk_max_data_bytes bytes.
DataWithinCap ==
    \A k \in 1..Len(log) : Len(log[k].data) <= chunk_max_data_bytes

\* C17 as stated: after any sequence of calls of append_to_chunks, with data
\* of any length, no chunk of the list is longer than chunk_max_data_bytes.
C17_Original ==
    \A i \in 1..Len(chunks) : Len(chunks[i]) <= chunk_max_data_bytes

\* C17: after any sequence of calls of append_to_chunks in which the data
\* of every call has at most chunk_max_data_bytes bytes, no chunk of the
\* list is longer than chunk_max_data_bytes.
C17_ChunkCap ==
    DataWithinCap
    => \A i \in 1..Len(chunks) : Len(chunks[i]) <= chunk_max_data_bytes
C17_Witness ==
    /\ DataWithinCap
    /\ Len(log) >= 2
    /\ Len(chunks) >= 2
    /\ Len(chunks[1]) = chunk_max_data_bytes
    /\ Len(log[1].data) < chunk_max_data_bytes
    /\ Len(log[2].data) = chunk_max_data_bytes

\* The bytes read from standard input in this step.
NewData == SubSeq(consumed', Len(consumed) + 1, Len(consumed'))
IsFull(ch) == ch # NoneVal /\ Len(ch) = chunk_max_data_bytes

\* C18: data that arrives while the last chunk is not full first extends it
\* up to the cap and only the remainder starts one new chunk, other data
\* starts a new chunk; so, however the reader's appends and the sender's
\* pops interleave, every chunk of the list but the last is full and a full
\* chunk is never changed again.
C18_Inv ==
    \A i \in 1..(Len(chunks) - 1) :
       /\ chunks[i] # NoneVal
       /\ chunks[i + 1] # NoneVal => IsFull(chunks[i])
C18_Step ==
    /\ (chunks' # chunks /\ consumed' = consumed)
       => \/ chunks # <<>> /\ chunks' = Tail(chunks)
          \/ chunks' = Append(chunks, NoneVal)
    /\ consumed' # consumed
       => LET n == Len(chunks)
              room == chunk_max_data_bytes - Len(chunks[n])
          IN  /\ \A i \in 1..n : (i < n \/ IsFull(chunks[i]))
                                 => chunks'[i] = chunks[i]
              /\ IF n = 0 \/ IsFull(chunks[n])
                 THEN chunks' = Append(chunks, NewData)
                 ELSE /\ chunks'[n] = chunks[n] \o SubSeq(NewData, 1,
                                                        Min(room, Len(NewData)))
                      /\ IF Len(NewData) > room
                         THEN /\ Len(chunks') = n + 1
                              /\ chunks'[n + 1] = SubSeq(NewData, room + 1,
                                                         Len(NewData))
                         ELSE Len(chunks') = n
C18_Spillover == [](C18_Inv) /\ [][C18_Step]_vars
C18_Witness ==
    /\ Len(chunks) >= 3
    /\ IsFull(chunks[1]) /\ IsFull(chunks[2])
    /\ chunks[3] # NoneVal /\ ~IsFull(chunks[3])
    /\ Len(DataLog) >= 1

\* C19: the reader reads and appends only while the list holds at most 3
\* entries, so the list never holds more than 4, sentinel included.
C19_Inv == Len(chunks) <= 4
C19_Step ==
    (consumed' # consumed \/ Len(chunks') > Len(chunks)) => Len(chunks) <= 3
C19_Backpressure == [](C19_Inv) /\ [][C19_Step]_vars
C19_Witness ==
    /\ Len(chunks) = 4
    /\ r_pc = "wait"
    /\ \A i \in 1..3 : IsFull(chunks[i])

\* The datagram as the receiver takes it from the socket: the header
\* fields it unpacks and the bytes after the header.
OnWire(d) == Datagram(d.header[1], d.header[2], d.header[3], d.body)

\* C20: the iterator of a chunk the sender transmits yields a datagram for
\* every position p of a pass, chunk_max_packets in all; the p-th has
\* n_packets = ceil(len(chunk) / MAX_PAYLOAD), seq = p mod n_packets below
\* n_packets and the chunk's bytes [seq * MAX_PAYLOAD, (seq + 1) *
\* MAX_PAYLOAD) as payload, so that the payloads of seq 0 .. n_packets - 1
\* concatenated are the chunk.
C20_ChunkEmission ==
    em.kind # "none"
    => LET n == CeilDiv(Len(em.data), MAX_PAYLOAD)
       IN  /\ n >= 1
           /\ \A q \in 0..(chunk_max_packets - 1) :
                 LET d == Packet(em.data, em.color, q)
                 IN  /\ ~Raised(d)
                     /\ d.header[2] = n
                     /\ d.header[3] = q % n
                     /\ d.header[3] \in 0..(n - 1)
                     /\ SubSeq(d.body, 1, d.header[4])
                           = Slice(em.data, (q % n) * MAX_PAYLOAD,
                                   ((q % n) + 1) * MAX_PAYLOAD)
           /\ Concat([q \in 1..n |->
                        Slice(em.data, (q - 1) * MAX_PAYLOAD, q * MAX_PAYLOAD)])
                 = em.data

\* C21: header round trip.  Every datagram the sender builds for the chunk
\* it transmits, from colour, n_packets, seq and a payload of at most
\* MAX_PAYLOAD bytes, is a datagram whose decoding by the receiver gives back
\* the same colour, n_packets and seq and exactly the payload bytes, without
\* the zero padding.
C21_HeaderRoundTrip ==
    em.kind # "none"
    => \A q \in 0..(chunk_max_packets - 1) :
          LET d == Packet(em.data, em.color, q)
              n == n_packets_of(em.data)
          IN  /\ ~Raised(d)
              /\ Decoded(OnWire(d))
                    = [color |-> em.color, n_packets |-> n, seq |-> q % n,
                       payload |-> Slice(em.data, (q % n) * MAX_PAYLOAD,
                                         ((q % n) + 1) * MAX_PAYLOAD)]

\* len(data) of a datagram at the receiver: the header and the bytes after
\* it.
DatagramLen(d) == PACKET_HEADER_size + Len(d.body)

\* The datagram is shorter than the UDP_MAX_BYTES of every datagram of the
\* protocol.
Undersized(d) == ~HasHeader(d) \/ DatagramLen(d) < UDP_MAX_BYTES

\* C23: an undersized datagram is discarded in every receiver state:
\* completed, the slots and the queue stay as they are, the receiver is not
\* closed, and the datagrams that follow are handled as they would have been
\* without it.
C23_MalformedDiscarded ==
    /\ \A u \in ShortDatagrams :
          LET h == Handled(completed, packets, u)
          IN  /\ h.completed = completed /\ h.packets = packets
              /\ h.pushed = <<>> /\ ~h.closed
    /\ \A u \in Datagrams :
          Undersized(u)
          => LET h == Handled(completed, packets, u)
             IN  /\ h.completed = completed /\ h.packets = packets
                 /\ h.pushed = <<>> /\ ~h.closed
                 /\ \A d \in Datagrams :
                       Handled(h.completed, h.packets, d)
                          = Handled(completed, packets, d)

\* The sink was closed and the reader had appended no terminator.
ClosedWithoutEof == rx_pc \in {"finally", "exited"} /\ ~SinkEof

C25_Inv == s_pc = "passed" => elapsed >= chunk_duration
C25_Step ==
    /\ (s_pc = "send" /\ s_pc' = "sleep") => SleepIsPositive(s', elapsed')
    /\ (s_pc = "send" /\ s_pc' = "sleep_rem") => chunk_duration - elapsed' > 0
    /\ (s_pc \in {"sleep", "sleep_rem"} /\ s_pc' # s_pc) => elapsed' > elapsed
C25_Pacing == [](C25_Inv) /\ [][C25_Step]_vars

\* C26: a run given both --chunk-duration and --chunk-max-packets ends in
\* an error before a socket is opened, the reader is started or a datagram
\* is sent; a run given neither has chunk_max_packets = 100.
C26_Options ==
    /\ (cli.T # Absent /\ cli.N # Absent /\ cli.pc \notin {"none", "parsed"})
       => /\ cli.pc = "exited"
          /\ cli.code \notin {Absent, 0}
          /\ cli.opens = 0
          /\ cli.thread = "none"
          /\ cli.sent = 0
    /\ (cli.T = Absent /\ cli.N = Absent /\ cli.pc \notin {"none", "parsed"})
       => /\ cli.args_N = DEFAULT_PACKETS
          /\ cli.pc # "checked" => cli.packets = <<DEFAULT_PACKETS, 1>>

\* The run has computed its chunk quantities.
Configured ==
    /\ cli.pc \notin {"none", "parsed", "checked"}
    /\ ~(cli.pc = "exited" /\ cli.opens = 0)

\* C27: from chunk_max_packets N the run has chunk_duration = N *
\* UDP_MAX_BYTES * 8 / max_bitrate; from chunk_duration T it has the whole
\* number chunk_max_packets = floor(T * max_bitrate / 8 / UDP_MAX_BYTES); in
\* both cases chunk_max_data_bytes = chunk_max_packets * MAX_PAYLOAD.
C27_Derived ==
    Configured
    => LET n == cli.args_N
           tb == cli.T * cli.B
           per == BYTE * UDP_MAX_BYTES
       IN  /\ ArgTruthy(n)
              => /\ cli.packets[1] = n * cli.packets[2]
                 /\ cli.duration[1] * cli.B = n * per * cli.duration[2]
           /\ ~ArgTruthy(n)
              => /\ cli.duration = <<cli.T, 1>>
                 /\ cli.packets[1] % cli.packets[2] = 0
                 /\ cli.packets[1] * per <= tb * cli.packets[2]
                 /\ tb * cli.packets[2] < (cli.packets[1] + cli.packets[2]) * per
           /\ cli.data_bytes * cli.packets[2] = cli.packets[1] * MAX_PAYLOAD

\* The set-up of the socket failed with an unassignable address or an
\* unknown host: the reader thread was created and never started.
SetupFailed ==
    /\ cli.thread = "created"
    /\ cli.error[2] \in {"unassignable", "unknown_host"}

\* C28: after a socket set-up that failed with an unassignable address or
\* an unknown host the process has printed the short message, exits with a
\* code other than 0, has written nothing to standard output, has set up
\* the socket once only and has no reader running.
C28_SetupFailure ==
    (SetupFailed /\ cli.pc = "exited")
    => /\ cli.stderr = "short"
       /\ cli.code \notin {Absent, 0}
       /\ cli.stdout = 0
       /\ cli.sent = 0
       /\ cli.opens = 1
       /\ cli.thread \in {"created", "joined"}

\* C29: a K chunk is started, and a K datagram is handed to the socket,
\* only once the sentinel has been popped, and the sentinel is in the list
\* only after the read of zero bytes at the end of the input; a sender that
\* was stopped by an exception outside the EOF chunk has started no K chunk
\* and sent no K datagram, and does nothing after it stopped.
KStarted == \E i \in 1..Len(log) : log[i].color = "K"
KOnWire == \E i \in 1..Len(net) : net[i].header[1] = "K"
C29_Inv ==
    /\ \A i \in 1..Len(chunks) :
          chunks[i] = NoneVal => (r_pc = "done" /\ stdin = <<>>)
    /\ (KStarted \/ KOnWire) => (SentinelPopped /\ stdin = <<>>)
    /\ (s_pc = "error" /\ em.kind # "eof") => (~KStarted /\ ~KOnWire)
C29_Step ==
    s_pc = "error" => (s_pc' = "error" /\ log' = log /\ net' = net)
C29_EofOnlyAfterSentinel == [](C29_Inv) /\ [][C29_Step]_vars

\* C31: under fair scheduling and without a network error, once the input
\* is at its end the reader appends the sentinel and the sender sends the
\* EOF chunk and ends; neither waits for the other for ever.
C31_SenderProgress == (stdin = <<>>) ~> (r_pc = "done" /\ s_pc = "done")

\* C32: the exit code is set only when every buffer enqueued before the
\* terminator has been written, and once an EOF datagram has been handled
\* the writer writes those buffers, takes the terminator and the digest,
\* sets the exit code once and ends, the network reader having ended.
C32_Safe ==
    exit_code # <<>> => (w_pc = "done" /\ EofProcessed /\ stdout = EnqData)
C32_Done ==
    /\ on_con_lost
    /\ w_pc = "done"
    /\ stdout = EnqData
    /\ queue = <<>>
    /\ Len(exit_code) = 1
C32_ReceiverTermination == [](C32_Safe) /\ (EofProcessed ~> C32_Done)
C32_Witness ==
    /\ C32_Done
    /\ Len(stdout) >= 2

\* -------------------------------------- the GUI's pipeline of subprocesses
\* gui.proc is what the operating system knows of each process of the
\* pipeline (RcNone while it runs, <<c>> once it exited with code c) and
\* gui.rc what popen.returncode holds, which poll() brings up to date.
\* gui.cancelled is the BooleanVar the buttons set, gui.pl_cancelled the
\* pipeline's own flag; gui.checks are the calls of check_subprocesses that
\* widget.after holds, each with its on_exit and cancel_signal, gui.anims
\* the calls of animate that root.after holds, and gui.dialogs the calls of
\* check_subprocesses that wait in showerror, the topmost dialog last.
\* gui.user, gui.was_stuck and gui.exits record what happened.
ReturnCodes == {0, 1, -15}
Returncodes(n) == UNION {[1..k -> {RcNone} \cup {<<c>> : c \in ReturnCodes}] : k \in 0..n}

\* list.index(None): the first position holding None, 0 for ValueError.
IndexOfNone(rcs) ==
    IF \E i \in 1..Len(rcs) : rcs[i] = RcNone
    THEN CHOOSE i \in 1..Len(rcs) :
            /\ rcs[i] = RcNone
            /\ \A j \in 1..(i - 1) : rcs[j] # RcNone
    ELSE 0

\* Only the process right after the earliest running one is looked at.
stuck_running_Next(rcs) ==
    LET earliest_running == IndexOfNone(rcs)
    IN  /\ earliest_running # 0
        /\ earliest_running + 1 <= Len(rcs)
        /\ rcs[earliest_running + 1] # RcNone
stuck_running(rcs) ==
    LET earliest_running == IndexOfNone(rcs)
    IN  /\ earliest_running # 0
        /\ \E j \in (earliest_running + 1)..Len(rcs) : rcs[j] # RcNone

still_running(rcs) == \E i \in 1..Len(rcs) : rcs[i] = RcNone

\* get_process_errors() returns a non-empty message.
get_process_errors(pl_cancelled, rcs) ==
    \E i \in 1..Len(rcs) : ~pl_cancelled /\ rcs[i] # <<0>>

\* A unit test's call: _returncodes is replaced by a list and stuck_running
\* is asked.
StuckCall ==
    /\ gui.pc = "created"
    /\ gui' = [gui EXCEPT !.pc = "asked", !.stuck = stuck_running(gui.rc)]
    /\ UNCHANGED <<chunk_duration, elapsed, cli, redundancy, chunk_max_packets,
                   stdin, consumed, chunks, r_pc, color, sha, warmup,
                   prev_chunk, s_pc, em, r, p, s, log, idle_n, net, proto_vars,
                   writer_vars, monitor_vars>>

InitIdle ==
    /\ InitSenderAt({<<>>}, {1}, {1})
    /\ redundancy = 1
    /\ cli = NoCli
    /\ InitReceiver

InitStuck ==
    /\ InitIdle
    /\ \E rcs \in Returncodes(MaxProcs) :
         gui = [NoGui EXCEPT !.pc = "created", !.rc = rcs]

NextStuck == StuckCall

SpecStuck == InitStuck /\ [][NextStuck]_vars

\* A timer of animate keeps its tar and its pydiode, Popen objects that
\* outlive the pipeline: as a place in the pipeline while the process is in
\* it, and once pipeline.clear() has dropped the process as Gone when it
\* has exited and as Orphan while it still runs.
Gone == 0
Orphan == -1
Runs(g, place) == place = Orphan \/ (place > 0 /\ g.proc[place] = RcNone)

\* A process the GUI started ends, by itself or on a signal it was sent,
\* with the return code 0 or with another one: a process of the pipeline,
\* or one that was dropped from the pipeline while it ran.
ExitCodes == {0, 1}
ProcessExit ==
    /\ gui.pc = "gui"
    /\ \/ \E i \in 1..Len(gui.proc), c \in ExitCodes :
            /\ gui.proc[i] = RcNone
            /\ gui' = [gui EXCEPT !.proc[i] = <<c>>]
       \/ \E k \in 1..Len(gui.anims) :
            \/ /\ gui.anims[k].tar = Orphan
               /\ gui' = [gui EXCEPT !.anims[k].tar = Gone]
            \/ /\ gui.anims[k].pydiode = Orphan
               /\ gui' = [gui EXCEPT !.anims[k].pydiode = Gone]
    /\ UNCHANGED <<chunk_duration, elapsed, cli, redundancy, chunk_max_packets,
                   stdin, consumed, chunks, r_pc, color, sha, warmup,
                   prev_chunk, s_pc, em, r, p, s, log, idle_n, net, proto_vars,
                   writer_vars, monitor_vars>>

\* Remove entry k of a sequence.
Without(sq, k) == SubSeq(sq, 1, k - 1) \o SubSeq(sq, k + 1, Len(sq))

\* pipeline.clear(): names and popens are emptied, whatever they hold, and
\* the pipeline's flag is reset.
clear(g) ==
    LET left(place) == IF Runs(g, place) THEN Orphan ELSE Gone
    IN  [g EXCEPT !.proc = <<>>,
                  !.rc = <<>>,
                  !.pl_cancelled = FALSE,
                  !.anims = [k \in 1..Len(g.anims) |->
                               [tar |-> left(g.anims[k].tar),
                                pydiode |-> left(g.anims[k].pydiode)]]]

\* One call of check_subprocesses(widget, cancelled, pipeline, on_exit,
\* cancel_signal) up to the point where it returns, calls on_exit or calls
\* showerror: the state it leaves, whether it scheduled itself again and
\* with which on_exit and cancel_signal, whether it waits in showerror
\* (dialog) and whether it is to call on_exit.  Popen.send_signal polls the
\* process before it signals it; what the signal does to a process is
\* ProcessExit.  With error messages the call stops in showerror before
\* pipeline.clear(); without, it clears the pipeline at once.
check_subprocesses(g, on_exit, cancel_signal) ==
    IF g.cancelled
    THEN LET plc == g.pl_cancelled \/ cancel_signal = "SIGINT"
         IN  [g |-> [g EXCEPT !.pl_cancelled = plc,
                              !.rc = g.proc,
                              !.cancelled = FALSE],
              again |-> TRUE, on_exit |-> on_exit /\ ~plc,
              cancel_signal |-> "SIGINT", dialog |-> FALSE, call |-> FALSE]
    ELSE LET rcs == g.proc
             error_msgs == get_process_errors(g.pl_cancelled, rcs)
         IN  IF stuck_running(rcs)
             THEN [g |-> [g EXCEPT !.rc = rcs,
                                   !.stuck = TRUE,
                                   !.cancelled = TRUE,
                                   !.was_stuck = TRUE],
                   again |-> TRUE, on_exit |-> on_exit,
                   cancel_signal |-> "SIGTERM", dialog |-> FALSE,
                   call |-> FALSE]
             ELSE IF still_running(rcs)
             THEN [g |-> [g EXCEPT !.rc = rcs, !.stuck = FALSE],
                   again |-> TRUE, on_exit |-> on_exit,
                   cancel_signal |-> "SIGINT", dialog |-> FALSE,
                   call |-> FALSE]
             ELSE IF error_msgs
             THEN [g |-> [g EXCEPT !.rc = rcs, !.stuck = FALSE],
                   again |-> FALSE, on_exit |-> on_exit,
                   cancel_signal |-> "SIGINT", dialog |-> TRUE,
                   call |-> FALSE]
             ELSE [g |-> [clear(g) EXCEPT
                            !.stuck = FALSE,
                            !.exits = IF on_exit
                                      THEN Append(@, [final |-> rcs,
                                                      user |-> g.user,
                                                      was_stuck |-> g.was_stuck])
                                      ELSE @],
                   again |-> FALSE, on_exit |-> on_exit,
                   cancel_signal |-> "SIGINT", dialog |-> FALSE,
                   call |-> on_exit]

\* receive_files: pydiode and tar are started, and decrypt when asked to,
\* and appended to RECEIVE_PIPELINE; check_subprocesses is called with
\* on_exit=repeat, then animate().  The new processes are running, so the
\* check schedules itself again and animate shows "Cancel Receiving" and
\* schedules itself.
receive_files(g, decrypt_received) ==
    LET n == Len(g.proc)
        started == [i \in 1..(IF decrypt_received THEN 3 ELSE 2) |-> RcNone]
        fresh == n = 0 /\ ~g.cancelled
        g1 == [g EXCEPT !.proc = @ \o started,
                        !.rc = @ \o started,
                        !.runs = @ + 1,
                        !.user = IF fresh THEN FALSE ELSE @,
                        !.was_stuck = IF fresh THEN FALSE ELSE @]
        c == check_subprocesses(g1, TRUE, "SIGINT")
    IN  [c.g EXCEPT !.checks = Append(@, [on_exit |-> c.on_exit,
                                          cancel_signal |-> c.cancel_signal]),
                    !.anims = Append(@, [tar |-> n + 2, pydiode |-> n + 1]),
                    !.button = "Cancel Receiving"]

\* receive_or_cancel, the command of the button: a press while the button
\* reads "Cancel Receiving" requests the cancellation, any other press
\* starts to receive, whether or not checks of an earlier run are pending.
\* While showerror's dialog is open it holds the grab, and the button of
\* the main window cannot be pressed.
receive_or_cancel ==
    /\ gui.pc = "gui"
    /\ gui.dialogs = <<>>
    /\ IF gui.button = "Cancel Receiving"
       THEN gui' = [gui EXCEPT !.cancelled = TRUE, !.user = TRUE]
       ELSE /\ gui.runs < MaxRuns
            /\ \E decrypt_received \in BOOLEAN :
                 gui' = receive_files(gui, decrypt_received)
    /\ UNCHANGED <<chunk_duration, elapsed, cli, redundancy, chunk_max_packets,
                   stdin, consumed, chunks, r_pc, color, sha, warmup,
                   prev_chunk, s_pc, em, r, p, s, log, idle_n, net, proto_vars,
                   writer_vars, monitor_vars>>

\* A call of check_subprocesses scheduled by widget.after runs, in the main
\* loop or in the event loop of an open dialog.  When every process has
\* exited and there are error messages it calls showerror, which returns
\* only when the dialog is dismissed (ShowerrorReturns); without error
\* messages it may call on_exit, which is repeat(): with "receive
\* repeatedly" set, receive_files is called again.
CheckSubprocesses ==
    /\ gui.pc = "gui"
    /\ \E k \in 1..Len(gui.checks) :
         LET c == check_subprocesses(gui, gui.checks[k].on_exit,
                                     gui.checks[k].cancel_signal)
         IN  IF c.again
             THEN gui' = [c.g EXCEPT !.checks[k] =
                                        [on_exit |-> c.on_exit,
                                         cancel_signal |-> c.cancel_signal]]
             ELSE LET g1 == [c.g EXCEPT !.checks = Without(@, k)]
                  IN  IF c.dialog
                      THEN gui' = [g1 EXCEPT !.dialogs =
                                      Append(@, [on_exit |-> c.on_exit,
                                                 error_msgs |-> TRUE])]
                      ELSE IF c.call /\ g1.repeatedly
                      THEN /\ g1.runs < MaxRuns
                           /\ \E decrypt_received \in BOOLEAN :
                                gui' = receive_files(g1, decrypt_received)
                      ELSE gui' = g1
    /\ UNCHANGED <<chunk_duration, elapsed, cli, redundancy, chunk_max_packets,
                   stdin, consumed, chunks, r_pc, color, sha, warmup,
                   prev_chunk, s_pc, em, r, p, s, log, idle_n, net, proto_vars,
                   writer_vars, monitor_vars>>

\* The user dismisses the error dialog and showerror returns to the call
\* of check_subprocesses that opened it: pipeline.clear(), then
\* `if on_exit and not error_msgs`, with the error_msgs the call read
\* before the dialog.  Dialogs opened from the event loop of another dialog
\* are above it, and the call that opened the topmost one resumes first.
ShowerrorReturns ==
    /\ gui.pc = "gui"
    /\ gui.dialogs # <<>>
    /\ LET d == gui.dialogs[Len(gui.dialogs)]
           g1 == [clear(gui) EXCEPT
                    !.dialogs = SubSeq(@, 1, Len(@) - 1),
                    !.exits = IF d.on_exit /\ ~d.error_msgs
                              THEN Append(@, [final |-> gui.rc,
                                              user |-> gui.user,
                                              was_stuck |-> gui.was_stuck])
                              ELSE @]
       IN  IF d.on_exit /\ ~d.error_msgs /\ g1.repeatedly
           THEN /\ g1.runs < MaxRuns
                /\ \E decrypt_received \in BOOLEAN :
                     gui' = receive_files(g1, decrypt_received)
           ELSE gui' = g1
    /\ UNCHANGED <<chunk_duration, elapsed, cli, redundancy, chunk_max_packets,
                   stdin, consumed, chunks, r_pc, color, sha, warmup,
                   prev_chunk, s_pc, em, r, p, s, log, idle_n, net, proto_vars,
                   writer_vars, monitor_vars>>

\* A call of animate scheduled by root.after runs, in the main loop or in
\* the event loop of an open dialog: tar is polled, and pydiode when tar
\* has exited; while one of them runs the button reads "Cancel Receiving"
\* and animate is scheduled again, else the button reads "Start
\* Receiving".  decrypt is not looked at.
animate ==
    /\ gui.pc = "gui"
    /\ \E k \in 1..Len(gui.anims) :
         LET a == gui.anims[k]
             tar_runs == Runs(gui, a.tar)
             pydiode_runs == Runs(gui, a.pydiode)
             polled == [i \in 1..Len(gui.rc) |->
                          IF i = a.tar \/ (i = a.pydiode /\ ~tar_runs)
                          THEN gui.proc[i] ELSE gui.rc[i]]
         IN  IF tar_runs \/ pydiode_runs
             THEN gui' = [gui EXCEPT !.rc = polled,
                                     !.button = "Cancel Receiving"]
             ELSE gui' = [gui EXCEPT !.rc = polled,
                                     !.button = "Start Receiving",
                                     !.anims = Without(@, k)]
    /\ UNCHANGED <<chunk_duration, elapsed, cli, redundancy, chunk_max_packets,
                   stdin, consumed, chunks, r_pc, color, sha, warmup,
                   prev_chunk, s_pc, em, r, p, s, log, idle_n, net, proto_vars,
                   writer_vars, monitor_vars>>

\* The Receive tab is shown and nothing was started; "receive repeatedly"
\* is set or not.
InitGui ==
    /\ InitIdle
    /\ \E receive_repeatedly \in BOOLEAN :
         gui = [NoGui EXCEPT !.pc = "gui", !.repeatedly = receive_repeatedly]

NextGui ==
    \/ receive_or_cancel
    \/ ProcessExit
    \/ CheckSubprocesses
    \/ ShowerrorReturns
    \/ animate

SpecGui == InitGui /\ [][NextGui]_vars

\* C33: stuck_running() is true exactly when a process that is still
\* running comes before one that has exited; it is false for the empty
\* pipeline, when every process has exited and when the running processes
\* all come after the exited ones.
C33_StuckRunning ==
    gui.pc = "asked"
    => (gui.stuck <=> \E i, j \in 1..Len(gui.rc) :
                         /\ i < j
                         /\ gui.rc[i] = RcNone
                         /\ gui.rc[j] # RcNone)
C33_Witness ==
    /\ gui.pc = "asked"
    /\ gui.rc = <<RcNone, RcNone, <<0>>>>
    /\ gui.stuck

\* C34: on_exit is called at most once in a run, and only when every
\* process exited with code 0, the user did not cancel and the pipeline was
\* never found stuck.
C34_OnExitOnlyClean ==
    /\ Len(gui.exits) <= gui.runs
    /\ \A k \in 1..Len(gui.exits) :
          /\ \A i \in 1..Len(gui.exits[k].final) :
                gui.exits[k].final[i] = <<0>>
          /\ ~gui.exits[k].user
          /\ ~gui.exits[k].was_stuck

\* C35: the writer writes the buffers in the order in which the network
\* reader enqueued them, each once, and its running digest covers exactly
\* the buffers it has taken from the queue, in that order, whatever the
\* interleaving of the reader's enqueues and the writer's steps; a buffer
\* is on standard output once its write has returned.
RECURSIVE ShaOver(_, _)
ShaOver(h, bufs) ==
    IF bufs = <<>> THEN h ELSE ShaOver(ShaUpdate(h, Head(bufs)), Tail(bufs))
C35_WriterOrder ==
    LET taken == Len(enq) - Len(queue)
    IN  /\ taken >= 0
        /\ queue = SubSeq(enq, taken + 1, Len(enq))
        /\ WriterTaken = SubSeq(EnqData, 1, Min(taken, Len(EnqData)))
        /\ w_sha = ShaOver(ShaNew, WriterTaken)
        /\ w_pc # "write" => w_data = NoneVal
C35_Witness ==
    /\ w_pc = "write"
    /\ Len(stdout) >= 2
    /\ stdout[1] # stdout[2]
    /\ Len(queue) >= 1
    /\ Len(enq) > Len(stdout) + Len(queue)

\* A read in this state returns zero bytes: the input is at its end or
\* the read asks for none.
ZeroRead == stdin = <<>> \/ chunk_max_data_bytes = 0

\* C36: the reader appends the sentinel once, only after a read of zero
\* bytes, and appends nothing after it; every other entry of the list is a
\* chunk of at least one byte, so every data chunk the sender builds has
\* n_packets of at least 1.
C36_Inv ==
    /\ \A i \in 1..Len(chunks) :
          IF chunks[i] = NoneVal
          THEN i = Len(chunks) /\ r_pc = "done" /\ ZeroRead
          ELSE Len(chunks[i]) >= 1
    /\ (r_pc = "done" /\ ~SentinelPopped)
       => (chunks # <<>> /\ chunks[Len(chunks)] = NoneVal)
    /\ \A i \in 1..Len(DataLog) : n_packets_of(DataLog[i].data) >= 1
C36_Step ==
    /\ (chunks' # <<>> /\ chunks'[Len(chunks')] = NoneVal
          /\ (chunks = <<>> \/ chunks[Len(chunks)] # NoneVal \/ Len(chunks') > Len(chunks)))
       => (r_pc = "read" /\ r_pc' = "done" /\ ZeroRead
           /\ stdin' = stdin /\ consumed' = consumed
           /\ chunks' = Append(chunks, NoneVal))
    /\ r_pc = "done"
       => /\ r_pc' = "done"
          /\ chunks' = chunks \/ (chunks # <<>> /\ chunks' = Tail(chunks))
C37_PacketsFit ==
    em.kind = "data"
    => LET n_packets == n_packets_of(em.data)
       IN  /\ n_packets >= 1
           /\ n_packets <= chunk_max_packets
           /\ \A seq \in 0..(n_packets - 1) :
                 \E q \in 0..(chunk_max_packets - 1) :
                    LET d == Packet(em.data, em.color, q)
                    IN  ~Raised(d) /\ d.header[3] = seq

\* C38: in a pass that calls sleep() once per packet, chunk_max_packets
\* times, and then sleep_remainder(), the count s of sleeps never exceeds
\* n_sleeps = ceil(chunk_max_packets / PACKET_BURST), the IndexError is
\* never raised, and s = n_sleeps once sleep_remainder() has returned.
C38_GuardNeverFires ==
    LET quota == CeilDiv(chunk_max_packets, PACKET_BURST)
    IN  /\ s_pc # "error"
        /\ p <= chunk_max_packets
        /\ s <= quota
        /\ s_pc \in {"send", "sleep", "sleep_rem"} => s = p \div PACKET_BURST
        /\ s_pc = "passed" => (p = chunk_max_packets /\ s = quota)
C38_Witness ==
    /\ s_pc = "passed"
    /\ chunk_max_packets = 2 * PACKET_BURST + 1
    /\ p = chunk_max_packets
    /\ s = 3
    /\ r = 1

\* C39: completed[R] and completed[B] are never both true, and the slots of
\* a completed colour are empty.
C39_CompletedExclusive ==
    /\ ~(completed["R"] /\ completed["B"])
    /\ \A c \in {"R", "B"} : completed[c] => packets[c] = EmptyMap
C39_Witness ==
    /\ completed["B"]
    /\ ~completed["R"]
    /\ packets["R"] # EmptyMap
    /\ Len(enq) >= 2

\* C40: whatever datagram of a chunk arrives, the slots of its colour after
\* the call are no more than the n_packets of its header, so that the
\* receiver never holds more slots than the chunk being reassembled has
\* packets; stated for the datagrams whose seq is below their n_packets.
C40_SlotsCapped ==
    \A d \in DataDatagrams :
       LET h == Handled(completed, packets, d)
       IN  d.seq < d.n_packets
           => Cardinality(DOMAIN h.packets[d.color]) <= d.n_packets

====
